---------------------------- MODULE Spec2Model ----------------------------
(***************************************************************************)
(* A model of the two scripts of the repository:                           *)
(*   build_versions.py                  the image build pipeline           *)
(*   .github/scripts/jira_automation.py the ticket transitioner            *)
(*                                                                         *)
(* Python strings are sequences of one-character strings, so that          *)
(* startswith, endswith, replace, concatenation and the parsing of version *)
(* numbers are computed on characters as the code computes them.  The      *)
(* empty string "" is the empty sequence << >>.                            *)
(***************************************************************************)
EXTENDS Integers, Sequences, FiniteSets, TLC

VARIABLES
    \* ---- _latest_patch / decide_python_versions (SpecPatch)
    tags,               \* the registry's tag list (_fetch_tags)
    ver,                \* the version prefix handed to _latest_patch
    distro,             \* the distro handed to _latest_patch
    canonical_image,    \* what _latest_patch returned
    distros,            \* the requested distros, the wanted-tag pattern's alternatives
    patch_pc,           \* "input" | "called"
    \* ---- version_combinations (SpecCombos)
    python_versions,    \* sequence of Python ResolvedVersions
    nodejs_versions,    \* sequence of Node.js ResolvedVersions
    combinations,       \* what version_combinations returned
    combos_pc,          \* "input" | "called"
    \* ---- update_readme_tags_table (SpecReadme)
    readme,             \* the content of README.md
    readme_before,      \* its content before the latest application
    applications,       \* the arguments of each application so far, latest last
    readme_pc,          \* "ready" | "idle"
    \* ---- main (Spec)
    versions_file,      \* the versions persisted in versions.json
    args,               \* the command line: distros, dry_run, debug, force
    todays_date,        \* the day of the run
    pc,                 \* where main stands
    current_versions,   \* main's current_versions (load_versions)
    versions,           \* main's versions (version_combinations)
    new_or_updated,     \* build_new_or_updated's list
    next_build,         \* index in new_or_updated of the loop's version
    login,              \* this run's registry login: "none" | "ok" | "failed"
    run_built,          \* the combinations built in this run, in order
    run_pushed,         \* the combinations pushed in this run
    pushed,             \* the combinations pushed in any run
    debug_files,        \* the keys whose debug-<key>.Dockerfile this run wrote
    console,            \* what this run printed, of the messages modelled
    exit_code,          \* the exit status of the run that ended last
    runs,               \* the number of runs started
    file_at_start,      \* versions.json as this run found it
    readme_at_start,    \* README.md as this run found it
    initial_file,       \* versions.json before the first run
    \* ---- jira_automation.py (SpecJira)
    branch_name,        \* --branch-name
    move,               \* "review" | "in_progress" | "none": the flag given
    ticket,             \* the ticket as the server holds it: issuetype, status
    ticket_id,          \* UpdateJira.ticket_id; << >> is None
    ticket_info,        \* what get_ticket_info returned
    is_valid_issue_type,
    get_result,         \* "none" | "ok" | "request_error" | "bad_shape"
    posts,              \* the transition ids POSTed, in order
    jira_pc,            \* where the script stands
    jira_exit           \* the script's exit status

patchVars == <<tags, ver, distro, distros, canonical_image, patch_pc>>

combosVars == <<python_versions, nodejs_versions, combinations, combos_pc>>

readmeVars == <<readme, readme_before, applications, readme_pc>>

mainVars == <<versions_file, args, todays_date, pc, current_versions, versions,
              new_or_updated, next_build, login, run_built, run_pushed, pushed,
              debug_files, console, exit_code, runs, file_at_start, readme_at_start,
              initial_file>>

jiraVars == <<branch_name, move, ticket, ticket_id, ticket_info, is_valid_issue_type,
              get_result, posts, jira_pc, jira_exit>>

vars == <<patchVars, combosVars, readmeVars, mainVars, jiraVars>>

(***************************************************************************)
(* Bounds of the model.                                                    *)
(***************************************************************************)
MaxTags == 3

MaxPython == 3

MaxNode == 2

MaxSegments == 4

MaxApplications == 2

MaxRuns == 2

(***************************************************************************)
(* Strings.                                                                *)
(***************************************************************************)
Digits == <<"0", "1", "2", "3", "4", "5", "6", "7", "8", "9">>

IsDigit(c) == \E i \in 1..Len(Digits) : Digits[i] = c

DigitVal(c) == (CHOOSE i \in 1..Len(Digits) : Digits[i] = c) - 1

\* int(s) for a string of digits
RECURSIVE ToInt(_)
ToInt(s) ==
    IF s = << >> THEN 0
    ELSE ToInt(SubSeq(s, 1, Len(s) - 1)) * 10 + DigitVal(s[Len(s)])

\* str(n) for a natural number
RECURSIVE ToStr(_)
ToStr(n) ==
    IF n < 10 THEN <<Digits[n + 1]>>
    ELSE ToStr(n \div 10) \o <<Digits[(n % 10) + 1]>>

\* the first index from `from' on at which s holds c; 0 when there is none
FirstIndex(s, c, from) ==
    IF \E i \in from..Len(s) : s[i] = c
    THEN CHOOSE i \in from..Len(s) : s[i] = c /\ \A j \in from..(i - 1) : s[j] # c
    ELSE 0

AllDigits(s) == s # << >> /\ \A i \in 1..Len(s) : IsDigit(s[i])

startswith(s, p) == Len(p) <= Len(s) /\ SubSeq(s, 1, Len(p)) = p

endswith(s, p) == Len(p) <= Len(s) /\ SubSeq(s, Len(s) - Len(p) + 1, Len(s)) = p

\* str.replace(old, new): every non-overlapping occurrence, left to right
RECURSIVE Replace(_, _, _)
Replace(s, old, new) ==
    IF s = << >> THEN << >>
    ELSE IF startswith(s, old)
         THEN new \o Replace(SubSeq(s, Len(old) + 1, Len(s)), old, new)
         ELSE <<s[1]>> \o Replace(Tail(s), old, new)

\* the concatenation of a sequence of sequences
RECURSIVE Flatten(_)
Flatten(ss) == IF ss = << >> THEN << >> ELSE ss[1] \o Flatten(Tail(ss))

\* F applied to the value of v, which is computed once
With(v, F(_)) == CHOOSE r \in { F(x) : x \in {v} } : TRUE

\* sorted(s, key=..., reverse=...): Python's sort is stable, also under
\* reverse=True.  Before(a, b) says that the key of a sorts strictly before
\* the key of b in the requested direction; elements that neither way sort
\* before the other keep their order.
sorted(s, Before(_, _)) ==
    With(s, LAMBDA t :
        LET n == Len(t)
            pos(i) == 1 + Cardinality({j \in 1..n :
                            Before(t[j], t[i]) \/ (~Before(t[i], t[j]) /\ j < i)})
        IN  With([i \in 1..n |-> pos(i)], LAMBDA at :
                [p \in 1..n |-> t[CHOOSE i \in 1..n : at[i] = p]]))

(***************************************************************************)
(* Module constants of build_versions.py.                                  *)
(***************************************************************************)
buster == <<"b", "u", "s", "t", "e", "r">>
bullseye == <<"b", "u", "l", "l", "s", "e", "y", "e">>
slim == <<"s", "l", "i", "m">>
alpine == <<"a", "l", "p", "i", "n", "e">>

DEFAULT_DISTRO == buster

DISTROS == <<buster, bullseye, slim, alpine>>

\* DISTROS.index(d)
DistroIndex(d) == CHOOSE i \in 1..Len(DISTROS) : DISTROS[i] = d

(***************************************************************************)
(* semver.compare, as by_semver_key uses it: major, minor and patch are    *)
(* compared as numbers; a version with a prerelease part sorts before the  *)
(* same version without one, and two prerelease parts compare as text.     *)
(***************************************************************************)
VersionInfo(s) ==
    LET d1 == FirstIndex(s, ".", 1)
        d2 == FirstIndex(s, ".", d1 + 1)
        h  == FirstIndex(s, "-", d2 + 1)
        e  == IF h = 0 THEN Len(s) ELSE h - 1
    IN  [major |-> ToInt(SubSeq(s, 1, d1 - 1)),
         minor |-> ToInt(SubSeq(s, d1 + 1, d2 - 1)),
         patch |-> ToInt(SubSeq(s, d2 + 1, e)),
         prerelease |-> IF h = 0 THEN << >> ELSE SubSeq(s, h + 1, Len(s)),
         has_prerelease |-> h # 0]

CharOrder == <<"-", ".">> \o Digits \o
    <<"a", "b", "e", "i", "l", "m", "n", "p", "r", "s", "t", "u", "y">>

Ord(c) == CHOOSE i \in 1..Len(CharOrder) : CharOrder[i] = c

cmp(a, b) == IF a < b THEN -1 ELSE IF a > b THEN 1 ELSE 0

RECURSIVE CmpText(_, _)
CmpText(a, b) ==
    IF a = << >> /\ b = << >> THEN 0
    ELSE IF a = << >> THEN -1
    ELSE IF b = << >> THEN 1
    ELSE IF a[1] # b[1] THEN cmp(Ord(a[1]), Ord(b[1]))
    ELSE CmpText(Tail(a), Tail(b))

semver_compare(a, b) ==
    LET va == VersionInfo(a)
        vb == VersionInfo(b)
    IN  IF va.major # vb.major THEN cmp(va.major, vb.major)
        ELSE IF va.minor # vb.minor THEN cmp(va.minor, vb.minor)
        ELSE IF va.patch # vb.patch THEN cmp(va.patch, vb.patch)
        ELSE IF ~va.has_prerelease /\ ~vb.has_prerelease THEN 0
        ELSE IF ~va.has_prerelease THEN 1
        ELSE IF ~vb.has_prerelease THEN -1
        ELSE CmpText(va.prerelease, vb.prerelease)

(***************************************************************************)
(* The wanted-tag pattern: "|".join(r"^(\d+\.\d+\.\d+-{})$".format(d)).    *)
(* A compiled pattern is the list of distros it was built from.            *)
(***************************************************************************)
\* one alternative, ^(\d+\.\d+\.\d+-<d>)$: the digits run up to the first
\* ".", from there to the next ".", and from there to the next "-"
MatchesPatch(tag, d) ==
    LET i == FirstIndex(tag, ".", 1)
        j == FirstIndex(tag, ".", i + 1)
        k == FirstIndex(tag, "-", j + 1)
    IN  /\ i > 0 /\ j > 0 /\ k > 0
        /\ AllDigits(SubSeq(tag, 1, i - 1))
        /\ AllDigits(SubSeq(tag, i + 1, j - 1))
        /\ AllDigits(SubSeq(tag, j + 1, k - 1))
        /\ SubSeq(tag, k + 1, Len(tag)) = d

PatternMatch(pattern, tag) == \E n \in 1..Len(pattern) : MatchesPatch(tag, pattern[n])

(***************************************************************************)
(* _latest_patch                                                           *)
(***************************************************************************)
\* tag.startswith(ver)
PrefixFilter(tag, v) == startswith(tag, v)

_latest_patch(tgs, v, patch_pattern, d) ==
    With(SelectSeq(tgs, LAMBDA tag :
                   /\ PrefixFilter(tag, v)
                   /\ endswith(tag, <<"-">> \o d)
                   /\ PatternMatch(patch_pattern, tag)),
         LAMBDA sel :
            IF sel # << >>
            THEN sorted(sel, LAMBDA a, b : semver_compare(a, b) > 0)[1]
            ELSE << >>)

(***************************************************************************)
(* decide_python_versions and decide_nodejs_versions.  The fetched tag     *)
(* list, the scraped release windows and today's date are parameters.      *)
(* A release window is [version, start, end]; the dates are day numbers,   *)
(* which order as the ISO date strings the code compares.                  *)
(***************************************************************************)
Range(s) == { s[i] : i \in 1..Len(s) }

\* [v for v in ... if v["start"] <= today <= v["end"]]
SupportedVersions(windows, today) ==
    SelectSeq(windows, LAMBDA v : v.start <= today /\ today <= v.end)

\* the dict appended for a version and a distro whose latest patch is image
PythonVersion(v, d, image) ==
    [canonical_version |-> Replace(image, <<"-">> \o d, << >>),
     image |-> image,
     key |-> v,
     distro |-> d]

decide_python_versions(dists, fetched_tags, windows, today) ==
    LET python_wanted_tag_pattern == dists
        m == Len(dists)
    IN  With(SelectSeq(fetched_tags, LAMBDA tag : PatternMatch(python_wanted_tag_pattern, tag)),
             LAMBDA tgs :
        With(SupportedVersions(windows, today), LAMBDA supported_versions :
        \* the nested loops in iteration order: each pair appends one dict,
        \* or none when it is skipped
        With([k \in 1..(Len(supported_versions) * m) |->
                 LET v == supported_versions[((k - 1) \div m) + 1].version
                     d == dists[((k - 1) % m) + 1]
                 IN  With(_latest_patch(tgs, v, python_wanted_tag_pattern, d),
                          LAMBDA image :
                             IF image = << >> THEN << >>
                             ELSE <<PythonVersion(v, d, image)>>)],
             LAMBDA appended :
                sorted(Flatten(appended),
                       LAMBDA a, b :
                          semver_compare(a.canonical_version, b.canonical_version) > 0))))

\* the dict appended for a version whose latest patch is image
NodejsVersion(v, image) ==
    [canonical_version |-> Replace(image, <<"-">> \o DEFAULT_DISTRO, << >>), key |-> v]

decide_nodejs_versions(fetched_tags, windows, today) ==
    LET nodejs_wanted_tag_pattern == <<DEFAULT_DISTRO>>
    IN  With(SelectSeq(fetched_tags, LAMBDA tag : PatternMatch(nodejs_wanted_tag_pattern, tag)),
             LAMBDA tgs :
        With(SupportedVersions(windows, today), LAMBDA supported_versions :
        \* the loop: each version appends one dict, or none when it is skipped
        With([k \in 1..Len(supported_versions) |->
                 LET v == Tail(supported_versions[k].version)  \* remove v prefix
                 IN  With(_latest_patch(tgs, v, nodejs_wanted_tag_pattern, DEFAULT_DISTRO),
                          LAMBDA image :
                             IF image = << >> THEN << >>
                             ELSE <<NodejsVersion(v, image)>>)],
             LAMBDA appended :
                sorted(Flatten(appended),
                       LAMBDA a, b :
                          semver_compare(a.canonical_version, b.canonical_version) > 0))))

(***************************************************************************)
(* version_combinations                                                    *)
(***************************************************************************)
\* a key that never carries the distro
DistroSuffixNever(d) == << >>

\* f'-{p["distro"]}' if p["distro"] != DEFAULT_DISTRO else ""
DistroSuffix(d) == IF d # DEFAULT_DISTRO THEN <<"-">> \o d ELSE << >>

\* f'python{p["key"]}-nodejs{n["key"]}{distro}'
CombinationKey(p, n) ==
    <<"p", "y", "t", "h", "o", "n">> \o p.key
        \o <<"-", "n", "o", "d", "e", "j", "s">> \o n.key \o DistroSuffix(p.distro)

Combination(p, n) ==
    [key |-> CombinationKey(p, n),
     python |-> p.key,
     python_canonical |-> p.canonical_version,
     python_image |-> p.image,
     nodejs |-> n.key,
     nodejs_canonical |-> n.canonical_version,
     distro |-> p.distro]

\* the first sort left out
SortByDistroSkipped(vs) == vs

\* the first sort: key=lambda v: DISTROS.index(v["distro"])
SortByDistro(vs) ==
    sorted(vs, LAMBDA a, b : DistroIndex(a.distro) < DistroIndex(b.distro))

\* the second sort: by nodejs_canonical, reverse=True
SortByNodejs(vs) ==
    sorted(vs, LAMBDA a, b : semver_compare(a.nodejs_canonical, b.nodejs_canonical) > 0)

\* the third sort: by python_canonical, reverse=True
SortByPython(vs) ==
    sorted(vs, LAMBDA a, b : semver_compare(a.python_canonical, b.python_canonical) > 0)

version_combinations(nodejs_vs, python_vs) ==
    With(nodejs_vs, LAMBDA ns :
    With(python_vs, LAMBDA ps :
        LET m == Len(ns)
        IN  SortByPython(SortByNodejs(SortByDistro(
                [k \in 1..(Len(ps) * m) |->
                    Combination(ps[((k - 1) \div m) + 1], ns[((k - 1) % m) + 1])])))))

(***************************************************************************)
(* update_readme_tags_table.  The README is a sequence of characters in    *)
(* which a run of literal text that the pattern can only match as a whole  *)
(* (a sentinel's words, a heading, a column separator) is one element.     *)
(***************************************************************************)
TableIntro == "the following table of available image tags"

Lovely == "Lovely!"

\* start = "the following table of available image tags.\n"
start == <<TableIntro, ".", "\n">>

\* end = "\nLovely!"
end == <<"\n", Lovely>>

\* sep.join(parts)
RECURSIVE Join(_, _)
Join(parts, sep) ==
    IF parts = << >> THEN << >>
    ELSE IF Len(parts) = 1 THEN parts[1]
    ELSE parts[1] \o sep \o Join(Tail(parts), sep)

headings == << <<"Tag">>, <<"Python version">>, <<"Node.js version">>, <<"Distro">> >>

\* the character that encloses the key in a table row (a backquote)
Backquote == "'"

TableRow(v) ==
    << <<Backquote>> \o v.key \o <<Backquote>>,
       v.python_canonical, v.nodejs_canonical, v.distro >>

TagsTable(vs) ==
    LET rows == [i \in 1..Len(vs) |-> TableRow(vs[i])]
        head == Join(headings, <<" | ">>) \o <<"\n">>
                    \o Join([i \in 1..Len(headings) |-> <<"---">>], <<" | ">>)
        body == Join([i \in 1..Len(rows) |-> Join(rows[i], <<" | ">>)], <<"\n">>)
    IN  head \o <<"\n">> \o body \o <<"\n">>

\* The compiled pattern f"{start}(.+?){end}" with re.DOTALL: the "." of
\* start is not escaped and matches any one character.
StartMatchesAt(s, i) ==
    /\ i + 2 <= Len(s)
    /\ s[i] = TableIntro
    /\ Len(s[i + 1]) = 1
    /\ s[i + 2] = "\n"

EndMatchesAt(s, j) == j + 1 <= Len(s) /\ s[j] = "\n" /\ s[j + 1] = Lovely

\* where the lazy group (.+?) of a match starting at i stops: the first end
\* that leaves the group at least one character; 0 when there is none
GroupEnd(s, i) ==
    IF \E j \in (i + 4)..Len(s) : EndMatchesAt(s, j)
    THEN CHOOSE j \in (i + 4)..Len(s) :
            EndMatchesAt(s, j) /\ \A k \in (i + 4)..(j - 1) : ~EndMatchesAt(s, k)
    ELSE 0

\* f"{start}\n{table}{end}"
Replacement(s, i, table) == start \o <<"\n">> \o table \o end

\* sub_pattern.sub(repl, readme), scanning from position i
RECURSIVE re_sub(_, _, _)
re_sub(s, i, table) ==
    IF i > Len(s) THEN << >>
    ELSE IF StartMatchesAt(s, i) /\ GroupEnd(s, i) # 0
         THEN Replacement(s, i, table) \o re_sub(s, GroupEnd(s, i) + 2, table)
         ELSE <<s[i]>> \o re_sub(s, i + 1, table)

\* the content of README.md after update_readme_tags_table(versions, dry_run)
update_readme_tags_table(text, vs, dry_run) ==
    LET readme_new == re_sub(text, 1, TagsTable(vs))
    IN  IF text # readme_new /\ ~dry_run THEN readme_new ELSE text

(***************************************************************************)
(* persist_versions, load_versions and the change detection of             *)
(* build_new_or_updated.  versions.json is modelled by the list it holds:  *)
(* json.dump and json.load of a list of dicts of strings give it back.     *)
(***************************************************************************)
\* persist_versions without the dry-run test
persist_versions_always(file, vs, dry_run) == vs

\* the content of versions.json after persist_versions(versions, dry_run)
persist_versions(file, vs, dry_run) == IF dry_run THEN file ELSE vs

load_versions(file) == file

\* {ver["key"]: ver for ver in vs}: the items in order of first insertion,
\* a later value replacing an earlier one of the same key
DictItems(vs) ==
    LET firsts == { i \in 1..Len(vs) : \A j \in 1..(i - 1) : vs[j].key # vs[i].key }
        last(i) == CHOOSE j \in 1..Len(vs) :
                      /\ vs[j].key = vs[i].key
                      /\ \A k \in (j + 1)..Len(vs) : vs[k].key # vs[i].key
        nth(n) == CHOOSE i \in firsts : Cardinality({ j \in firsts : j < i }) = n - 1
    IN  [n \in 1..Cardinality(firsts) |-> vs[last(nth(n))]]

\* updated, with the comparison of the values left out
IsUpdatedNever(v, current) == FALSE

\* updated = key in current_versions and ver != current_versions[key]
IsUpdated(v, current) == \E j \in 1..Len(current) : current[j].key = v.key /\ v # current[j]

\* new = key not in current_versions
IsNew(v, current) == \A j \in 1..Len(current) : current[j].key # v.key

NewOrUpdated(current_vs, vs, force) ==
    LET current == DictItems(current_vs)
    IN  SelectSeq(DictItems(vs), LAMBDA v : IsNew(v, current) \/ IsUpdated(v, current) \/ force)

\* the test that is never true
NothingToBuildNever(nou) == FALSE

\* if not new_or_updated:
NothingToBuild(nou) == nou = << >>

(***************************************************************************)
(* jira_automation.py                                                      *)
(***************************************************************************)
UpperCase == <<"A", "B", "D", "I", "N", "P", "S", "T", "V">>

LowerCase == <<"a", "b", "d", "i", "n", "p", "s", "t", "v">>

\* str.lower()
lower(s) ==
    [i \in 1..Len(s) |->
        IF \E k \in 1..Len(UpperCase) : UpperCase[k] = s[i]
        THEN LowerCase[CHOOSE k \in 1..Len(UpperCase) : UpperCase[k] = s[i]]
        ELSE s[i]]

\* needle in s
Contains(s, needle) ==
    \E i \in 1..(Len(s) - Len(needle) + 1) : SubSeq(s, i, i + Len(needle) - 1) = needle

\* the number of digits s holds from index k on, before anything else
RECURSIVE DigitsFrom(_, _)
DigitsFrom(s, k) == IF k <= Len(s) /\ IsDigit(s[k]) THEN 1 + DigitsFrom(s, k + 1) ELSE 0

vida == <<"v", "i", "d", "a">>

\* where the digits of a match of vida[-_]?(\d{3,4}) that starts at i begin;
\* 0 when the pattern does not match at i
VidaDigitsAt(s, i) ==
    LET k == i + Len(vida)
        afterSep == IF k <= Len(s) /\ s[k] \in {"-", "_"} THEN k + 1 ELSE k
    IN  IF k - 1 <= Len(s) /\ SubSeq(s, i, k - 1) = vida
            /\ DigitsFrom(s, afterSep) >= 3
        THEN afterSep ELSE 0

\* get_jira_ticket_id: "vida-<number>" for the first match, None without one
get_jira_ticket_id(s) ==
    LET matches == { i \in 1..Len(s) : VidaDigitsAt(s, i) # 0 }
    IN  IF matches = {} THEN << >>
        ELSE LET i == CHOOSE m \in matches : \A n \in matches : m <= n
                 d == VidaDigitsAt(s, i)
                 n == IF DigitsFrom(s, d) >= 4 THEN 4 ELSE 3
             IN  vida \o <<"-">> \o SubSeq(s, d, d + n - 1)

NoTicketInfo == [is_none |-> TRUE, issue_name |-> << >>, status |-> << >>]

\* get_ticket_info, given how the GET went: the dict, or None
get_ticket_info(result, served) ==
    IF result = "ok"
    THEN [is_none |-> FALSE,
          issue_name |-> lower(served.issuetype),
          status |-> lower(served.status)]
    ELSE NoTicketInfo

possible_ticket_issues == { <<"s", "t", "o", "r", "y">>, <<"b", "u", "g">> }

\* has_ticket_issue, for a ticket_info that is a dict
has_ticket_issue(info) == lower(info.issue_name) \in possible_ticket_issues

\* the transition id change_status_to_in_progress posts; << >> for none
InProgressTransition(info, valid) ==
    IF ~valid THEN << >>
    ELSE IF Contains(info.status, <<"b", "a", "c", "k", "l", "o", "g">>) THEN ToStr(121)
    ELSE IF Contains(info.status, <<"s", "e", "l", "e", "c", "t", "e", "d">>) THEN ToStr(21)
    ELSE << >>

\* the transition id change_status_to_needs_review posts; << >> for none
NeedsReviewTransition(info, valid) ==
    IF valid /\ Contains(info.status, <<"p", "r", "o", "g", "r", "e", "s", "s">>) THEN ToStr(151) ELSE << >>

(***************************************************************************)
(* SpecPatch: _latest_patch applied to bounded tag lists.                  *)
(***************************************************************************)
IdlePatch ==
    /\ tags = << >> /\ ver = << >> /\ distro = << >> /\ distros = << >>
    /\ canonical_image = << >> /\ patch_pc = "idle"

IdleCombos ==
    /\ python_versions = << >> /\ nodejs_versions = << >>
    /\ combinations = << >> /\ combos_pc = "idle"

IdleReadme ==
    /\ readme = << >> /\ readme_before = << >>
    /\ applications = << >> /\ readme_pc = "idle"

IdleJira ==
    /\ branch_name = << >> /\ move = "none" /\ ticket_id = << >>
    /\ ticket = [issuetype |-> << >>, status |-> << >>]
    /\ ticket_info = NoTicketInfo /\ is_valid_issue_type = FALSE
    /\ get_result = "none" /\ posts = << >> /\ jira_pc = "idle" /\ jira_exit = 0

NoArgs == [distros |-> << >>, dry_run |-> FALSE, debug |-> FALSE, force |-> FALSE]

IdleMain ==
    /\ versions_file = << >> /\ args = NoArgs /\ todays_date = 0 /\ pc = "idle"
    /\ current_versions = << >> /\ versions = << >> /\ new_or_updated = << >>
    /\ next_build = 0 /\ login = "none" /\ run_built = << >> /\ run_pushed = {}
    /\ pushed = {} /\ debug_files = {} /\ console = {} /\ exit_code = 0 /\ runs = 0
    /\ file_at_start = << >> /\ readme_at_start = << >> /\ initial_file = << >>

Tag(major, minor, patch, d) ==
    ToStr(major) \o <<".">> \o ToStr(minor) \o <<".">> \o ToStr(patch) \o <<"-">> \o d

Prefix(major, minor) == ToStr(major) \o <<".">> \o ToStr(minor)

TagUniverse ==
    { Tag(3, 9, 1, buster), Tag(3, 9, 2, buster), Tag(3, 9, 10, buster),
      Tag(3, 10, 0, buster), Tag(3, 1, 5, buster), Tag(3, 9, 3, slim),
      Prefix(3, 9) \o <<"-">> \o buster,
      <<"l", "a", "t", "e", "s", "t">> }

\* lists of distinct elements of S, of length at most n
ListsOf(S, n) ==
    { s \in UNION { [1..k -> S] : k \in 0..n } :
        \A i, j \in 1..Len(s) : i # j => s[i] # s[j] }

PatchPrefixes == { Prefix(3, 9), Prefix(3, 1), Prefix(3, 10) }

PatchDistros == { buster, slim }

InitPatch ==
    /\ tags \in ListsOf(TagUniverse, MaxTags)
    /\ ver \in PatchPrefixes
    /\ distros \in ListsOf(PatchDistros, Cardinality(PatchDistros)) \ {<< >>}
    /\ distro \in Range(distros)
    /\ canonical_image = << >>
    /\ patch_pc = "input"
    /\ IdleCombos /\ IdleReadme /\ IdleMain /\ IdleJira

\* canonical_image = _latest_patch(tags, ver, python_wanted_tag_pattern, distro)
LatestPatch ==
    /\ patch_pc = "input"
    /\ canonical_image' = _latest_patch(tags, ver, distros, distro)
    /\ patch_pc' = "called"
    /\ UNCHANGED <<tags, ver, distros, distro>>
    /\ UNCHANGED <<combosVars, readmeVars, mainVars, jiraVars>>

NextPatch == LatestPatch

SpecPatch == InitPatch /\ [][NextPatch]_vars

(***************************************************************************)
(* SpecCombos: version_combinations applied to bounded sequences of        *)
(* resolved versions, in any order.                                        *)
(***************************************************************************)
PyResolved(key, canonical, d) ==
    [canonical_version |-> canonical,
     image |-> canonical \o <<"-">> \o d,
     key |-> key,
     distro |-> d]

NodeResolved(key, canonical) == [canonical_version |-> canonical, key |-> key]

Version(major, minor, patch) ==
    ToStr(major) \o <<".">> \o ToStr(minor) \o <<".">> \o ToStr(patch)

PyResolvedUniverse ==
    { PyResolved(Prefix(3, 9), Version(3, 9, 2), buster),
      PyResolved(Prefix(3, 9), Version(3, 9, 10), slim),
      PyResolved(Prefix(3, 10), Version(3, 10, 0), buster),
      PyResolved(Prefix(3, 10), Version(3, 10, 0), slim),
      PyResolved(Prefix(3, 1), Version(3, 10, 0), buster) }

NodeResolvedUniverse ==
    { NodeResolved(ToStr(14), Version(14, 17, 0)),
      NodeResolved(ToStr(16), Version(16, 3, 0)),
      NodeResolved(ToStr(9), Version(9, 11, 2)) }

InitCombos ==
    /\ python_versions \in ListsOf(PyResolvedUniverse, MaxPython)
    /\ nodejs_versions \in ListsOf(NodeResolvedUniverse, MaxNode)
    /\ combinations = << >>
    /\ combos_pc = "input"
    /\ IdlePatch /\ IdleReadme /\ IdleMain /\ IdleJira

\* versions = version_combinations(nodejs_versions, python_versions)
Combine ==
    /\ combos_pc = "input"
    /\ combinations' = version_combinations(nodejs_versions, python_versions)
    /\ combos_pc' = "called"
    /\ UNCHANGED <<python_versions, nodejs_versions>>
    /\ UNCHANGED <<patchVars, readmeVars, mainVars, jiraVars>>

NextCombos == Combine

SpecCombos == InitCombos /\ [][NextCombos]_vars

(***************************************************************************)
(* SpecReadme: update_readme_tags_table applied, up to MaxApplications     *)
(* times, to bounded READMEs put together from the sentinels, a line that  *)
(* differs from the start sentinel in its punctuation, and other text.     *)
(***************************************************************************)
Segments ==
    { <<"x">>, <<"\n">>, start, <<TableIntro, ":", "\n">>, end, <<TableIntro>> }

Readmes == { Flatten(ss) : ss \in UNION { [1..k -> Segments] : k \in 0..MaxSegments } }

SomePython ==
    << PyResolved(Prefix(3, 10), Version(3, 10, 0), slim),
       PyResolved(Prefix(3, 9), Version(3, 9, 2), buster) >>

SomeNodejs == << NodeResolved(ToStr(16), Version(16, 3, 0)) >>

\* the version data a README is updated with
TableData ==
    { version_combinations(SomeNodejs, SubSeq(SomePython, 1, k)) : k \in 0..Len(SomePython) }

InitReadme ==
    /\ readme \in Readmes
    /\ readme_before = readme
    /\ applications = << >>
    /\ readme_pc = "ready"
    /\ IdlePatch /\ IdleCombos /\ IdleMain /\ IdleJira

UpdateReadme(data, dry_run) ==
    /\ readme_pc = "ready"
    /\ Len(applications) < MaxApplications
    /\ readme_before' = readme
    /\ readme' = update_readme_tags_table(readme, data, dry_run)
    /\ applications' = Append(applications, [versions |-> data, dry_run |-> dry_run])
    /\ UNCHANGED readme_pc
    /\ UNCHANGED <<patchVars, combosVars, mainVars, jiraVars>>

NextReadme == \E data \in TableData, dry_run \in BOOLEAN : UpdateReadme(data, dry_run)

SpecReadme == InitReadme /\ [][NextReadme]_vars

(***************************************************************************)
(* Spec: runs of main, one after the other.  What a run fetches is drawn   *)
(* from a small world: release windows over days 0 to 2, two states of the *)
(* Python tag list, and runs on days 1 and 2 that start from the file a    *)
(* run of day 0 left.                                                      *)
(***************************************************************************)
PythonWindows ==
    << [version |-> Prefix(3, 8), start |-> 0, end |-> 0],
       [version |-> Prefix(3, 9), start |-> 0, end |-> 1],
       [version |-> Prefix(3, 10), start |-> 2, end |-> 2] >>

NodejsWindows ==
    << [version |-> <<"v">> \o ToStr(14), start |-> 0, end |-> 2],
       [version |-> <<"v">> \o ToStr(16), start |-> 2, end |-> 2] >>

RunDays == { PythonWindows[i].end : i \in 1..Len(PythonWindows) } \ {0}

OlderPythonTags ==
    << Tag(3, 8, 10, buster), Tag(3, 8, 10, slim), Tag(3, 9, 1, buster),
       Tag(3, 9, 1, slim), Tag(3, 10, 0, buster), Tag(3, 10, 0, slim),
       Prefix(3, 9) \o <<"-">> \o buster >>

PythonTagLists == { OlderPythonTags, Append(OlderPythonTags, Tag(3, 9, 2, buster)) }

NodeTags ==
    << Tag(14, 17, 0, buster), Tag(14, 17, 0, slim), Tag(16, 3, 0, buster),
       ToStr(14) \o <<"-">> \o buster >>

\* the distros of the command line, as given
DistroArgs == { <<buster>>, <<slim, buster, slim>> }

CommandLines ==
    [distros : DistroArgs, dry_run : BOOLEAN, debug : BOOLEAN, force : BOOLEAN]

\* list(set(distros)): the distinct distros, in some order
ListOfSet(ds) == { l \in ListsOf(Range(ds), Len(ds)) : Range(l) = Range(ds) }

\* README.md, with the table region
RunReadmes == { <<"x", "\n">> \o start \o <<"x">> \o end \o <<"\n", "x">> }

\* versions.json as an earlier run left it
InitialFiles ==
    { << >>,
      version_combinations(
          decide_nodejs_versions(NodeTags, NodejsWindows, 0),
          decide_python_versions(<<buster, slim>>, OlderPythonTags, PythonWindows, 0)) }

Init ==
    /\ versions_file \in InitialFiles
    /\ initial_file = versions_file
    /\ file_at_start = versions_file
    /\ readme \in RunReadmes
    /\ readme_before = readme
    /\ readme_at_start = readme
    /\ applications = << >> /\ readme_pc = "idle"
    /\ args = NoArgs /\ todays_date = 1 /\ pc = "idle"
    /\ current_versions = << >> /\ versions = << >> /\ new_or_updated = << >>
    /\ next_build = 0 /\ login = "none" /\ run_built = << >> /\ run_pushed = {}
    /\ pushed = {} /\ debug_files = {} /\ console = {} /\ exit_code = 0 /\ runs = 0
    /\ IdlePatch /\ IdleCombos /\ IdleJira

otherVars == <<patchVars, combosVars, jiraVars, readme_before, applications, readme_pc,
               initial_file>>

\* python build_versions.py ...: main(**args) is entered
StartRun(cmd, day) ==
    /\ pc \in {"idle", "done", "aborted"}
    /\ runs < MaxRuns
    /\ day >= todays_date
    /\ runs' = runs + 1
    /\ args' = cmd
    /\ todays_date' = day
    /\ pc' = "main"
    /\ file_at_start' = versions_file
    /\ readme_at_start' = readme
    /\ current_versions' = << >> /\ versions' = << >> /\ new_or_updated' = << >>
    /\ next_build' = 0 /\ login' = "none" /\ run_built' = << >> /\ run_pushed' = {}
    /\ console' = {} /\ exit_code' = 0 /\ debug_files' = {}
    /\ UNCHANGED <<versions_file, readme, pushed, otherVars>>

\* main, lines 246-252, with the tag list the registry serves
LoadAndDecide(python_tags, ds) ==
    /\ pc = "main"
    /\ current_versions' = load_versions(versions_file)
    /\ versions' = version_combinations(
                      decide_nodejs_versions(NodeTags, NodejsWindows, todays_date),
                      decide_python_versions(ds, python_tags, PythonWindows, todays_date))
    /\ pc' = "persist"
    /\ UNCHANGED <<versions_file, readme, args, todays_date, new_or_updated, next_build,
                   login, run_built, run_pushed, pushed, debug_files, console, exit_code,
                   runs, file_at_start, readme_at_start, otherVars>>

\* an upstream fetch raises: the run ends with a traceback
FetchFails ==
    /\ pc = "main"
    /\ pc' = "aborted"
    /\ exit_code' = 1
    /\ UNCHANGED <<versions_file, readme, args, todays_date, current_versions, versions,
                   new_or_updated, next_build, login, run_built, run_pushed, pushed,
                   debug_files, console, runs, file_at_start, readme_at_start, otherVars>>

\* persist_versions(versions, dry_run)
Persist ==
    /\ pc = "persist"
    /\ versions_file' = persist_versions(versions_file, versions, args.dry_run)
    /\ pc' = "readme"
    /\ UNCHANGED <<readme, args, todays_date, current_versions, versions, new_or_updated,
                   next_build, login, run_built, run_pushed, pushed, debug_files, console,
                   exit_code, runs, file_at_start, readme_at_start, otherVars>>

\* update_readme_tags_table(versions, dry_run)
UpdateReadmeTable ==
    /\ pc = "readme"
    /\ readme' = update_readme_tags_table(readme, versions, args.dry_run)
    /\ pc' = "detect"
    /\ UNCHANGED <<versions_file, args, todays_date, current_versions, versions,
                   new_or_updated, next_build, login, run_built, run_pushed, pushed,
                   debug_files, console, exit_code, runs, file_at_start, readme_at_start,
                   otherVars>>

\* build_new_or_updated, lines 173-185: nothing is new or updated
DetectNothing ==
    /\ pc = "detect"
    /\ NothingToBuild(NewOrUpdated(current_versions, versions, args.force))
    /\ new_or_updated' = NewOrUpdated(current_versions, versions, args.force)
    /\ console' = console \cup {"No new or updated versions"}
    /\ pc' = "done"
    /\ UNCHANGED <<versions_file, readme, args, todays_date, current_versions, versions,
                   next_build, login, run_built, run_pushed, pushed, debug_files,
                   exit_code, runs, file_at_start, readme_at_start, otherVars>>

\* build_new_or_updated, lines 173-188: something is to be built
DetectSome ==
    /\ pc = "detect"
    /\ ~NothingToBuild(NewOrUpdated(current_versions, versions, args.force))
    /\ new_or_updated' = NewOrUpdated(current_versions, versions, args.force)
    /\ pc' = "login"
    /\ UNCHANGED <<versions_file, readme, args, todays_date, current_versions, versions,
                   next_build, login, run_built, run_pushed, pushed, debug_files, console,
                   exit_code, runs, file_at_start, readme_at_start, otherVars>>

\* docker_client.login succeeds, and the loop is entered
LoginSucceeds ==
    /\ pc = "login"
    /\ login' = "ok"
    /\ next_build' = 1
    /\ pc' = IF new_or_updated = << >> THEN "done" ELSE "build"
    /\ UNCHANGED <<versions_file, readme, args, todays_date, current_versions, versions,
                   new_or_updated, run_built, run_pushed, pushed, debug_files, console,
                   exit_code, runs, file_at_start, readme_at_start, otherVars>>

\* a failed login that the run goes on from
LoginFailsAndGoesOn ==
    /\ pc = "login"
    /\ login' = "failed"
    /\ next_build' = 1
    /\ pc' = IF new_or_updated = << >> THEN "done" ELSE "build"
    /\ UNCHANGED <<versions_file, readme, args, todays_date, current_versions, versions,
                   new_or_updated, run_built, run_pushed, pushed, debug_files, console,
                   exit_code, runs, file_at_start, readme_at_start, otherVars>>

\* docker_client.login raises APIError: exit(1)
LoginFails ==
    /\ pc = "login"
    /\ login' = "failed"
    /\ console' = console \cup {"Could not login to docker hub"}
    /\ exit_code' = 1
    /\ pc' = "aborted"
    /\ UNCHANGED <<versions_file, readme, args, todays_date, current_versions, versions,
                   new_or_updated, next_build, run_built, run_pushed, pushed, debug_files,
                   runs, file_at_start, readme_at_start, otherVars>>

\* the loop body, lines 200-215: render, build unless dry_run, debug file
Build ==
    /\ pc = "build"
    /\ LET version == new_or_updated[next_build]
       IN  /\ run_built' = IF args.dry_run THEN run_built ELSE Append(run_built, version)
           /\ debug_files' = IF args.debug THEN debug_files \cup {version.key}
                             ELSE debug_files
    /\ pc' = "push"
    /\ UNCHANGED <<versions_file, readme, args, todays_date, current_versions, versions,
                   new_or_updated, next_build, login, run_pushed, pushed, console,
                   exit_code, runs, file_at_start, readme_at_start, otherVars>>

\* rendering the Dockerfile or building the image raises
BuildFails ==
    /\ pc = "build"
    /\ exit_code' = 1
    /\ pc' = "aborted"
    /\ UNCHANGED <<versions_file, readme, args, todays_date, current_versions, versions,
                   new_or_updated, next_build, login, run_built, run_pushed, pushed,
                   debug_files, console, runs, file_at_start, readme_at_start, otherVars>>

\* the loop body, lines 216-218: push unless dry_run, then the next version
Push ==
    /\ pc = "push"
    /\ LET version == new_or_updated[next_build]
       IN  /\ run_pushed' = IF args.dry_run THEN run_pushed ELSE run_pushed \cup {version}
           /\ pushed' = IF args.dry_run THEN pushed ELSE pushed \cup {version}
    /\ next_build' = next_build + 1
    /\ pc' = IF next_build < Len(new_or_updated) THEN "build" ELSE "done"
    /\ UNCHANGED <<versions_file, readme, args, todays_date, current_versions, versions,
                   new_or_updated, login, run_built, debug_files, console, exit_code,
                   runs, file_at_start, readme_at_start, otherVars>>

\* docker_client.images.push raises
PushFails ==
    /\ pc = "push"
    /\ ~args.dry_run
    /\ exit_code' = 1
    /\ pc' = "aborted"
    /\ UNCHANGED <<versions_file, readme, args, todays_date, current_versions, versions,
                   new_or_updated, next_build, login, run_built, run_pushed, pushed,
                   debug_files, console, runs, file_at_start, readme_at_start, otherVars>>

Next ==
    \/ \E cmd \in CommandLines, day \in RunDays : StartRun(cmd, day)
    \/ \E python_tags \in PythonTagLists, ds \in ListOfSet(args.distros) :
          LoadAndDecide(python_tags, ds)
    \/ FetchFails
    \/ Persist
    \/ UpdateReadmeTable
    \/ DetectNothing
    \/ DetectSome
    \/ LoginSucceeds
    \/ LoginFails
    \/ Build
    \/ BuildFails
    \/ Push
    \/ PushFails

Spec == Init /\ [][Next]_vars

(***************************************************************************)
(* SpecJira: one execution of jira_automation.py.                          *)
(***************************************************************************)
BranchNames == { <<"V", "I", "D", "A", "-", "1", "2", "3", "4", "-", "t", "a", "g", "s">>, <<"v", "i", "d", "a", "_", "1", "2", "3">>, <<"V", "I", "D", "A", "-", "1", "2">>, <<"v", "i", "d", "a", "1", "2", "3", "4", "5">> }

IssueTypes == { <<"S", "t", "o", "r", "y">>, <<"B", "u", "g">>, <<"T", "a", "s", "k">> }

Statuses == { <<"B", "a", "c", "k", "l", "o", "g">>, <<"S", "e", "l", "e", "c", "t", "e", "d">>, <<"I", "n", " ", "P", "r", "o", "g", "r", "e", "s", "s">>, <<"D", "o", "n", "e">> }

InitJira ==
    /\ branch_name \in BranchNames
    /\ move \in {"review", "in_progress", "none"}
    /\ ticket \in [issuetype : IssueTypes, status : Statuses]
    /\ ticket_id = << >>
    /\ ticket_info = NoTicketInfo /\ is_valid_issue_type = FALSE
    /\ get_result = "none" /\ posts = << >> /\ jira_pc = "start" /\ jira_exit = 0
    /\ IdlePatch /\ IdleCombos /\ IdleReadme /\ IdleMain

nonJira == <<patchVars, combosVars, readmeVars, mainVars>>

\* instance = UpdateJira(jira_token, branch_name), and the flag chosen
Construct ==
    /\ jira_pc = "start"
    /\ ticket_id' = get_jira_ticket_id(lower(branch_name))
    /\ jira_pc' = IF move = "none" THEN "exited" ELSE "get"
    /\ UNCHANGED <<branch_name, move, ticket, ticket_info, is_valid_issue_type,
                   get_result, posts, jira_exit, nonJira>>

\* ticket_info = self.get_ticket_info(): the GET fails (no connection, an
\* HTTP error status, no such issue), or answers without the expected
\* fields, or answers with the ticket; a ticket_id of None names no issue
GetTicketInfo(result) ==
    /\ jira_pc = "get"
    /\ ticket_id = << >> => result = "request_error"
    /\ get_result' = result
    /\ ticket_info' = get_ticket_info(result, ticket)
    /\ jira_pc' = "has_ticket_issue"
    /\ UNCHANGED <<branch_name, move, ticket, ticket_id, is_valid_issue_type, posts,
                   jira_exit, nonJira>>

\* is_valid_issue_type = self.has_ticket_issue(None): None["issue_name"]
\* raises TypeError, which nothing catches
HasTicketIssueRaises ==
    /\ jira_pc = "has_ticket_issue"
    /\ ticket_info.is_none
    /\ jira_exit' = 1
    /\ jira_pc' = "exited"
    /\ UNCHANGED <<branch_name, move, ticket, ticket_id, ticket_info,
                   is_valid_issue_type, get_result, posts, nonJira>>

\* is_valid_issue_type = self.has_ticket_issue(ticket_info)
HasTicketIssue ==
    /\ jira_pc = "has_ticket_issue"
    /\ ~ticket_info.is_none
    /\ is_valid_issue_type' = has_ticket_issue(ticket_info)
    /\ jira_pc' = "transition"
    /\ UNCHANGED <<branch_name, move, ticket, ticket_id, ticket_info, get_result, posts,
                   jira_exit, nonJira>>

\* if ticket_info: ... self.post(url, data); post catches a failed request
Transition ==
    /\ jira_pc = "transition"
    /\ LET id == IF ticket_info.is_none THEN << >>
                 ELSE IF move = "review"
                      THEN NeedsReviewTransition(ticket_info, is_valid_issue_type)
                      ELSE InProgressTransition(ticket_info, is_valid_issue_type)
       IN  posts' = IF id = << >> THEN posts ELSE Append(posts, id)
    /\ jira_pc' = "exited"
    /\ UNCHANGED <<branch_name, move, ticket, ticket_id, ticket_info,
                   is_valid_issue_type, get_result, jira_exit, nonJira>>

NextJira ==
    \/ Construct
    \/ \E result \in {"ok", "request_error", "bad_shape"} : GetTicketInfo(result)
    \/ HasTicketIssueRaises
    \/ HasTicketIssue
    \/ Transition

SpecJira == InitJira /\ [][NextJira]_vars

(***************************************************************************)
(* Properties of _latest_patch.                                            *)
(***************************************************************************)
\* tag has the shape P.<patch>-D
HasShape(tag, P, D) ==
    /\ startswith(tag, P \o <<".">>)
    /\ endswith(tag, <<"-">> \o D)
    /\ Len(tag) > Len(P) + 1 + Len(D) + 1
    /\ AllDigits(SubSeq(tag, Len(P) + 2, Len(tag) - Len(D) - 1))

PatchNumber(tag, P, D) == ToInt(SubSeq(tag, Len(P) + 2, Len(tag) - Len(D) - 1))

\* C1: _latest_patch returns the tag with the greatest patch number among
\* the tags of the shape P.<patch>-D, and the empty string when the list
\* holds no tag of that shape; the returned tag's major.minor is P.
C1_LatestPatchOfMinor ==
    patch_pc = "called" =>
        LET shaped == { i \in 1..Len(tags) : HasShape(tags[i], ver, distro) }
        IN  IF shaped = {}
            THEN canonical_image = << >>
            ELSE \E i \in shaped :
                    /\ canonical_image = tags[i]
                    /\ \A j \in shaped :
                          PatchNumber(tags[j], ver, distro) <= PatchNumber(tags[i], ver, distro)

(***************************************************************************)
(* Properties of version_combinations.                                     *)
(***************************************************************************)
\* a sorts at or before b: Python canonical version descending, then Node.js
\* canonical version descending, then position in DISTROS ascending
OrderedPair(a, b) ==
    LET pa == VersionInfo(a.python_canonical)
        pb == VersionInfo(b.python_canonical)
        na == VersionInfo(a.nodejs_canonical)
        nb == VersionInfo(b.nodejs_canonical)
        py == <<pa.major, pa.minor, pa.patch>>
        qy == <<pb.major, pb.minor, pb.patch>>
        nd == <<na.major, na.minor, na.patch>>
        md == <<nb.major, nb.minor, nb.patch>>
        Greater(x, y) == \/ x[1] > y[1]
                         \/ x[1] = y[1] /\ x[2] > y[2]
                         \/ x[1] = y[1] /\ x[2] = y[2] /\ x[3] > y[3]
    IN  \/ Greater(py, qy)
        \/ py = qy /\ Greater(nd, md)
        \/ py = qy /\ nd = md /\ DistroIndex(a.distro) <= DistroIndex(b.distro)

DistinctTriples(cs) ==
    \A i, j \in 1..Len(cs) :
        i # j => <<cs[i].python_canonical, cs[i].nodejs_canonical, cs[i].distro>>
                 # <<cs[j].python_canonical, cs[j].nodejs_canonical, cs[j].distro>>

SwapAdjacent(s, i) ==
    [k \in 1..Len(s) |-> IF k = i THEN s[i + 1] ELSE IF k = i + 1 THEN s[i] ELSE s[k]]

\* C3: the output is ordered by Python canonical version descending, then
\* Node.js canonical version descending, then DISTROS position ascending; and
\* when the (python_canonical, nodejs_canonical, distro) triples are distinct,
\* exchanging two neighbours of either input sequence (hence any reordering
\* of the inputs) gives the same output.
C3_OutputOrder ==
    combos_pc = "called" =>
        /\ \A i \in 1..(Len(combinations) - 1) :
              OrderedPair(combinations[i], combinations[i + 1])
        /\ DistinctTriples(combinations) =>
              /\ \A i \in 1..(Len(python_versions) - 1) :
                    version_combinations(nodejs_versions, SwapAdjacent(python_versions, i))
                        = combinations
              /\ \A i \in 1..(Len(nodejs_versions) - 1) :
                    version_combinations(SwapAdjacent(nodejs_versions, i), python_versions)
                        = combinations

\* two entries equal on both versions and apart in distro, distinct triples,
\* from inputs that were not handed over in output order
C3_Witness ==
    /\ combos_pc = "called"
    /\ DistinctTriples(combinations)
    /\ Len(python_versions) >= 2 /\ Len(nodejs_versions) >= 2
    /\ \E i, j \in 1..Len(combinations) :
          /\ combinations[i].python_canonical = combinations[j].python_canonical
          /\ combinations[i].nodejs_canonical = combinations[j].nodejs_canonical
          /\ combinations[i].distro # combinations[j].distro
    /\ DistroIndex(python_versions[1].distro) > DistroIndex(python_versions[2].distro)
    /\ semver_compare(nodejs_versions[1].canonical_version,
                      nodejs_versions[2].canonical_version) < 0

\* C4: one combination per (Python, Node.js) pair; combinations apart in
\* (python key, nodejs key, distro) have different keys, the key ending in
\* -<distro> exactly for the non-default distros; so no two combinations of
\* the output share a key.
C4_OnePerPairAndUniqueKeys ==
    combos_pc = "called" =>
        /\ Len(combinations) = Len(python_versions) * Len(nodejs_versions)
        /\ \A i \in 1..Len(python_versions), j \in 1..Len(nodejs_versions) :
              Cardinality({ k \in 1..Len(combinations) :
                  /\ combinations[k].python = python_versions[i].key
                  /\ combinations[k].python_canonical = python_versions[i].canonical_version
                  /\ combinations[k].python_image = python_versions[i].image
                  /\ combinations[k].distro = python_versions[i].distro
                  /\ combinations[k].nodejs = nodejs_versions[j].key
                  /\ combinations[k].nodejs_canonical = nodejs_versions[j].canonical_version })
                = 1
        /\ \A k \in 1..Len(combinations) :
              endswith(combinations[k].key, <<"-">> \o combinations[k].distro)
                  <=> combinations[k].distro # DEFAULT_DISTRO
        /\ \A k, l \in 1..Len(combinations) :
              <<combinations[k].python, combinations[k].nodejs, combinations[k].distro>>
                  # <<combinations[l].python, combinations[l].nodejs, combinations[l].distro>>
              => combinations[k].key # combinations[l].key
        /\ \A k, l \in 1..Len(combinations) :
              k # l => combinations[k].key # combinations[l].key

\* the same Python and Node.js keys under the default and another distro
C4_Witness ==
    /\ combos_pc = "called"
    /\ Len(combinations) >= 4
    /\ \E k, l \in 1..Len(combinations) :
          /\ combinations[k].python = combinations[l].python
          /\ combinations[k].nodejs = combinations[l].nodejs
          /\ combinations[k].distro = DEFAULT_DISTRO
          /\ combinations[l].distro # DEFAULT_DISTRO

(***************************************************************************)
(* Properties of update_readme_tags_table.                                 *)
(***************************************************************************)
LiteralAt(s, i, lit) == i + Len(lit) - 1 <= Len(s) /\ SubSeq(s, i, i + Len(lit) - 1) = lit

Occurrences(s, lit) == { i \in 1..Len(s) : LiteralAt(s, i, lit) }

Min(S) == CHOOSE x \in S : \A y \in S : x <= y

Max(S) == CHOOSE x \in S : \A y \in S : x >= y

\* the latest application was given what the one before it was given
SameDataTwice ==
    /\ Len(applications) >= 2
    /\ applications[Len(applications)] = applications[Len(applications) - 1]

ReadmeIdempotent == SameDataTwice => readme = readme_before

\* what precedes the first start sentinel, and what the last end sentinel
\* begins, is the same after the application as before it
ReadmeFramed ==
    Len(applications) >= 1 =>
        /\ Occurrences(readme_before, start) # {} =>
              LET i == Min(Occurrences(readme_before, start))
              IN  SubSeq(readme, 1, i - 1) = SubSeq(readme_before, 1, i - 1)
        /\ Occurrences(readme_before, end) # {} =>
              LET j == Max(Occurrences(readme_before, end))
                  n == Len(readme_before) - j + 1
              IN  /\ Len(readme) >= n
                  /\ SubSeq(readme, Len(readme) - n + 1, Len(readme))
                        = SubSeq(readme_before, j, Len(readme_before))

ReadmeWithoutSentinelsKept ==
    (Len(applications) >= 1
        /\ (Occurrences(readme_before, start) = {} \/ Occurrences(readme_before, end) = {}))
    => readme = readme_before

\* C8: applying update_readme_tags_table a second time with the same data
\* leaves the README as the first application left it; every application
\* keeps the text before the start sentinel and from the end sentinel on;
\* a README without the sentinels is left unchanged.
C8_ReadmeIdempotentAndFramed ==
    ReadmeIdempotent /\ ReadmeFramed /\ ReadmeWithoutSentinelsKept

(***************************************************************************)
(* Properties of a run of main.                                            *)
(***************************************************************************)
\* build_new_or_updated has made its list
Detected == pc \in {"login", "build", "push", "done"}

KeyIn(key, vs) == \E j \in 1..Len(vs) : vs[j].key = key

\* the combination differs in some field from the baseline's entry of its key
DiffersFrom(v, vs) == \E j \in 1..Len(vs) : vs[j].key = v.key /\ vs[j] # v

\* C2: without force a combination of the new set is in new_or_updated
\* exactly when its key is absent from the baseline or the baseline's entry
\* of that key differs from it; with force new_or_updated is the whole new
\* set; entries of the baseline whose key is not in the new set never appear.
C2_ChangeDetection ==
    Detected =>
        /\ ~args.force =>
              \A i \in 1..Len(versions) :
                  (versions[i] \in Range(new_or_updated))
                      <=> (~KeyIn(versions[i].key, current_versions)
                              \/ DiffersFrom(versions[i], current_versions))
        /\ args.force => new_or_updated = versions
        /\ Range(new_or_updated) \subseteq Range(versions)
        /\ \A j \in 1..Len(current_versions) :
              ~KeyIn(current_versions[j].key, versions)
                  => current_versions[j] \notin Range(new_or_updated)

\* an updated entry reported, an unchanged one left out, a baseline entry gone
C2_Witness ==
    /\ pc = "login"
    /\ ~args.force
    /\ \E i \in 1..Len(versions) :
          DiffersFrom(versions[i], current_versions)
              /\ versions[i] \in Range(new_or_updated)
    /\ \E i \in 1..Len(versions) :
          versions[i] \in Range(current_versions)
              /\ versions[i] \notin Range(new_or_updated)
    /\ \E j \in 1..Len(current_versions) : ~KeyIn(current_versions[j].key, versions)

NothingToDo == pc = "done" /\ new_or_updated = << >>

NoRegistryUse == login = "none" /\ run_built = << >> /\ run_pushed = {}

\* C5 as stated: a run whose new-or-updated set is empty, force not set,
\* reports nothing to do and ends with versions.json as it was before the run
\* and without login, build or push.
C5_NothingToDoKeepsFile ==
    (NothingToDo /\ ~args.force) =>
        /\ "No new or updated versions" \in console
        /\ NoRegistryUse
        /\ versions_file = file_at_start

\* C5, amended: such a run reports nothing to do and performs no login,
\* build or push; versions.json ends holding the newly computed combinations
\* in a run that is not dry, and as it was before the run in a dry run.
C5_NothingToDoNoRegistry ==
    (NothingToDo /\ ~args.force) =>
        /\ "No new or updated versions" \in console
        /\ NoRegistryUse
        /\ exit_code = 0
        /\ versions_file = IF args.dry_run THEN file_at_start ELSE versions

\* nothing to do, in a run that dropped entries from versions.json
C5_Witness ==
    /\ NothingToDo /\ ~args.force /\ ~args.dry_run
    /\ versions # << >>
    /\ Len(versions) < Len(file_at_start)
    /\ Range(versions) \subseteq Range(file_at_start)

\* C6: a dry run leaves versions.json and README.md as it found them and
\* builds and pushes no image, whatever the baseline, the combinations and
\* the force and debug flags.
C6_DryRunChangesNothing ==
    (pc # "idle" /\ args.dry_run) =>
        /\ versions_file = file_at_start
        /\ readme = readme_at_start
        /\ run_built = << >>
        /\ run_pushed = {}

\* a dry run that went through its whole loop, and would have written both
C6_Witness ==
    /\ pc = "done" /\ args.dry_run /\ args.force /\ args.debug
    /\ Len(new_or_updated) >= 2
    /\ next_build > Len(new_or_updated)
    /\ versions # file_at_start
    /\ update_readme_tags_table(readme, versions, FALSE) # readme

\* C7: after a failed login the run is over, with a nonzero exit status and
\* no image built or pushed.
C7_LoginFailureAborts ==
    login = "failed" =>
        /\ pc = "aborted"
        /\ exit_code # 0
        /\ run_built = << >>
        /\ run_pushed = {}

\* a failed login with several combinations waiting, in a run that is not dry
C7_Witness ==
    /\ login = "failed"
    /\ ~args.dry_run
    /\ Len(new_or_updated) >= 2

\* C10: when a run has ended, every combination that versions.json holds and
\* that was not in it before the first run has been pushed, with that key and
\* that value, in this run or an earlier one.
C10_PersistedOnlyIfPushed ==
    pc \in {"done", "aborted"} =>
        \A i \in 1..Len(versions_file) :
            versions_file[i] \in Range(initial_file) \/ versions_file[i] \in pushed

(***************************************************************************)
(* Properties of the ticket automation.                                    *)
(***************************************************************************)
\* C9: when the GET of the ticket's info fails, or answers without the
\* expected fields, get_ticket_info yields None, no transition is POSTed, and
\* the script finishes normally: no uncaught error, exit status 0.
C9_FailedGetIsHarmless ==
    get_result \in {"request_error", "bad_shape"} =>
        /\ ticket_info.is_none
        /\ posts = << >>
        /\ jira_pc = "exited" => jira_exit = 0

=============================================================================
